---- MODULE Spec2Model ----
(***************************************************************************)
(* Model of the `ado` command-line client (src/cli/ado.py and              *)
(* src/common/*.py).                                                       *)
(*                                                                         *)
(* Strings are sequences of symbols: the separators "," "." " " "/" "@"    *)
(* "?" ":" are one symbol each, any other symbol is a run of ordinary      *)
(* characters.  Python values are tagged records [t, v].                   *)
(***************************************************************************)
EXTENDS Integers, Sequences, FiniteSets, TLC

VARIABLES
    file,       \* the configuration file <user-config-dir>/ado.yaml
    out,        \* what the last config command did (code, arguments, file before)
    remote,     \* a remote URL being built and parsed (ado_utils.py)
    nested,     \* a get_nested_value call: object, field path, result
    cache,      \* the name cache ~/.fus/ado.db: whether it exists, the rows of `repos`
    dbcall,     \* the last call on the cache: arguments, rows before, result
    latest,     \* history: for each id, the name it was last upserted with
    past,       \* history: every (id, name) ever upserted
    cli,        \* one run of a listing command: what it took in, what it gave out
    procs       \* concurrent `config set` invocations: position, updates, document held

configVars == <<file, out, procs>>
dbVars == <<cache, dbcall, latest, past>>
vars == <<file, out, remote, nested, cache, dbcall, latest, past, cli, procs>>

(***************************************************************************)
(* Python / YAML values                                                    *)
(***************************************************************************)
Str(s)  == [t |-> "str",  v |-> s]
Bool(b) == [t |-> "bool", v |-> b]
Map(f)  == [t |-> "map",  v |-> f]
Null    == [t |-> "null", v |-> <<>>]
NoFile  == [t |-> "nofile", v |-> <<>>]

EmptyDict == <<>>

\* d[k] = v on a Python dict
Put(d, k, v) == [x \in (DOMAIN d) \cup {k} |-> IF x = k THEN v ELSE d[x]]

\* d.update(u)
Update(d, u) == [x \in (DOMAIN d) \cup (DOMAIN u) |-> IF x \in DOMAIN u THEN u[x] ELSE d[x]]

\* all dicts with keys among K and values in V
Dicts(K, V) == UNION {[D -> V] : D \in SUBSET K}

\* str.lower() on the symbols used for boolean literals
LowerSym(c) ==
    CASE c = "TRUE" -> "true" [] c = "FALSE" -> "false"
      [] c = "DEV" -> "dev" [] c = "AZURE" -> "azure" [] c = "COM" -> "com"
      [] c = "Not" -> "not" [] c = "Found" -> "found"
      [] c = "Unauthorized" -> "unauthorized"
      [] OTHER -> c
Lower(s) == [i \in 1..Len(s) |-> LowerSym(s[i])]

RECURSIVE Join(_, _)
\* sep.join(list)
Join(sep, list) ==
    IF Len(list) = 0 THEN <<>>
    ELSE IF Len(list) = 1 THEN list[1]
    ELSE list[1] \o sep \o Join(sep, Tail(list))

DEFAULT_REPO_FIELDS == << <<"id">>, <<"name">> >>
DEFAULT_REPO_COLUMN_NAMES == << <<"repo_id">>, <<"repo_name">> >>
DEFAULT_SERVER == <<"https", ":", "/", "/", "dev", ".", "azure", ".", "com">>

(***************************************************************************)
(* Config store                                                            *)
(***************************************************************************)
\* a reader that starts from an empty document whatever the file holds
read_config_Fresh(f) == Map(EmptyDict)

\* read_config: {} when the file is missing or empty, else the parsed YAML
read_config(f) ==
    IF f = NoFile THEN Map(EmptyDict)
    ELSE IF f = Null THEN Map(EmptyDict)
    ELSE f

\* write_config: the whole document replaces the file
write_config(config) == Map(config)

\* a setter that always starts the intermediate mapping afresh
set_nested_value_Fresh(config, parts, value) ==
    IF Len(parts) = 1 THEN Put(config, parts[1], value)
    ELSE Put(config, parts[1], Map(Put(EmptyDict, parts[2], value)))

RECURSIVE set_nested_value(_, _, _)
\* set_nested_value(config, key, value), key already split on "."
set_nested_value(config, parts, value) ==
    IF Len(parts) = 1 THEN Put(config, parts[1], value)
    ELSE LET part  == Head(parts)
             child == IF part \notin DOMAIN config THEN EmptyDict
                      ELSE IF config[part].t # "map" THEN EmptyDict
                      ELSE config[part].v
         IN  Put(config, part, Map(set_nested_value(child, Tail(parts), value)))

NoArgs == [project |-> Null, org |-> Null, server |-> Null,
           repo_columns |-> Null, repo_column_names |-> Null, repo_open |-> Null]

\* outcome of a command of the config group
Outcome(cmd, code, args, before, printed) ==
    [cmd |-> cmd, code |-> code, args |-> args, before |-> before, printed |-> printed]

\* an initialisation that reports the existing file and writes the defaults over it
config_init_Overwrite ==
    /\ file' = write_config([server |-> Str(DEFAULT_SERVER)])
    /\ out' = Outcome("init", IF file # NoFile THEN 1 ELSE 0, NoArgs, file, EmptyDict)

\* an invocation of `config set` that has not started
NoProc == [pc |-> "idle", updates |-> EmptyDict, config |-> Map(EmptyDict), turn |-> 0]

\* `config init` (the whole handler): refuses when the file exists, else writes the defaults
config_init ==
    IF file # NoFile
    THEN /\ out' = Outcome("init", 1, NoArgs, file, EmptyDict)
         /\ UNCHANGED file
    ELSE LET config == [server |-> Str(DEFAULT_SERVER),
                        repo |-> Map(Put([columns |-> Str(Join(<<",">>, DEFAULT_REPO_FIELDS)),
                                          open |-> Bool(TRUE)],
                                         "column-names",
                                         Str(Join(<<",">>, DEFAULT_REPO_COLUMN_NAMES))))]
         IN  /\ file' = write_config(config)
             /\ out' = Outcome("init", 0, NoArgs, file, EmptyDict)

\* the top-level options of `config set` that were given (ado.py 90-96)
TopUpdates(args) ==
    [k \in {k \in {"project", "org", "server"} : args[k] # Null} |-> args[k]]

\* the document `config set` holds when it reaches the final check (ado.py 98-118);
\* defined when the document read is a mapping and --repo.open is valid
SetDocument(existing, args) ==
    LET c0 == Update(existing, TopUpdates(args))
        c1 == IF args.repo_columns # Null
              THEN set_nested_value(c0, <<"repo", "columns">>, args.repo_columns)
              ELSE c0
        c2 == IF args.repo_column_names # Null
              THEN set_nested_value(c1, <<"repo", "column-names">>, args.repo_column_names)
              ELSE c1
        c3 == IF args.repo_open # Null
              THEN set_nested_value(c2, <<"repo", "open">>,
                                    Bool(Lower(args.repo_open.v) = <<"true">>))
              ELSE c2
    IN  c3

\* --repo.open given and not 'true'/'false' in any casing
BadRepoOpen(args) ==
    /\ args.repo_open # Null
    /\ Lower(args.repo_open.v) \notin {<<"true">>, <<"false">>}

\* a `config set` that writes what it has merged before it rejects the invocation
config_set_Eager(args) ==
    LET existing == read_config(file)
    IN  IF existing.t # "map"
        THEN /\ out' = Outcome("set", 1, args, file, EmptyDict)
             /\ UNCHANGED file
        ELSE IF BadRepoOpen(args) \/ args = NoArgs
        THEN /\ file' = write_config(Update(existing.v, TopUpdates(args)))
             /\ out' = Outcome("set", 1, args, file, EmptyDict)
        ELSE /\ file' = write_config(SetDocument(existing.v, args))
             /\ out' = Outcome("set", 0, args, file, EmptyDict)

\* `config set` (the whole handler)
config_set(args) ==
    LET existing == read_config(file)
    IN  IF existing.t # "map"
        THEN \* existing_config.update raises on a document that is no mapping
             /\ out' = Outcome("set", 1, args, file, EmptyDict)
             /\ UNCHANGED file
        ELSE IF BadRepoOpen(args)
        THEN /\ out' = Outcome("set", 1, args, file, EmptyDict)
             /\ UNCHANGED file
        ELSE IF args = NoArgs
        THEN /\ out' = Outcome("set", 1, args, file, EmptyDict)
             /\ UNCHANGED file
        ELSE /\ file' = write_config(SetDocument(existing.v, args))
             /\ out' = Outcome("set", 0, args, file, EmptyDict)

\* a listing that leaves an empty document behind when there was no file
config_list_Touch ==
    /\ file' = IF file = NoFile THEN write_config(EmptyDict) ELSE file
    /\ out' = Outcome("list", 0, NoArgs, file, EmptyDict)

\* `config list` (the whole handler): prints every top-level key, server defaulted
config_list ==
    LET config == read_config(file)
    IN  /\ UNCHANGED file
        /\ IF config.t # "map"
           THEN out' = Outcome("list", 1, NoArgs, file, EmptyDict)
           ELSE out' = Outcome("list", 0, NoArgs, file,
                               IF "server" \in DOMAIN config.v THEN config.v
                               ELSE Put(config.v, "server", Str(DEFAULT_SERVER)))

(***************************************************************************)
(* Remote-URL builder and parser (ado_utils.py)                            *)
(***************************************************************************)
Range(s) == {s[i] : i \in 1..Len(s)}

\* s[a..b], empty when a > b
Slice(s, a, b) == IF a > b THEN <<>> ELSE SubSeq(s, a, b)

\* index of the first c in s, 0 when there is none
IndexOf(s, c) ==
    IF c \in Range(s) THEN CHOOSE i \in 1..Len(s) : s[i] = c /\ \A j \in 1..(i - 1) : s[j] # c
    ELSE 0

RECURSIVE Split(_, _)
\* s.split(sep): the pieces of s between the occurrences of the symbol sep
Split(s, sep) ==
    LET i == IndexOf(s, sep)
    IN  IF i = 0 THEN <<s>>
        ELSE <<Slice(s, 1, i - 1)>> \o Split(Slice(s, i + 1, Len(s)), sep)

StartsWith(s, p) == Len(s) >= Len(p) /\ SubSeq(s, 1, Len(p)) = p
EndsWith(s, p) == Len(s) >= Len(p) /\ SubSeq(s, Len(s) - Len(p) + 1, Len(s)) = p

\* p in s
Contains(s, p) ==
    \E i \in 0..(Len(s) - Len(p)) : SubSeq(s, i + 1, i + Len(p)) = p

Whitespace == {" ", "\n"}
PUBLIC_HOST == <<"dev", ".", "azure", ".", "com">>
HTTPS_SCHEME == <<"https", ":", "/", "/">>
SSH_PREFIX == <<"git", "@", "ssh", ".", "dev", ".", "azure", ".", "com", ":", "v3", "/">>
DOT_GIT == <<".", "git">>

NoMatch == [ok |-> FALSE, groups |-> <<>>]
Match(groups) == [ok |-> TRUE, groups |-> groups]

\* ([^/\s]+?)(?:\.git)?$ on the last piece of the path: `$` also matches before
\* one trailing newline; the lazy group stops at the first place where what is
\* left is '.git' or nothing
RepoGroup(t) ==
    LET body == IF Len(t) > 0 /\ t[Len(t)] = "\n" THEN Slice(t, 1, Len(t) - 1) ELSE t
    IN  IF Len(body) = 0 \/ Range(body) \cap Whitespace # {} THEN NoMatch
        ELSE IF Len(body) > Len(DOT_GIT) /\ EndsWith(body, DOT_GIT)
        THEN Match(<<Slice(body, 1, Len(body) - Len(DOT_GIT))>>)
        ELSE Match(<<body>>)

\* ([^/]+)/([^/]+)/([^/]+)/_git/([^/\s]+?)(?:\.git)?$
HttpsPath(rest) ==
    LET segs == Split(rest, "/")
    IN  IF /\ Len(segs) = 5
           /\ \A i \in 1..3 : Len(segs[i]) > 0
           /\ segs[4] = <<"_git">>
           /\ RepoGroup(segs[5]).ok
        THEN Match(<<segs[1], segs[2], segs[3]>> \o RepoGroup(segs[5]).groups)
        ELSE NoMatch

\* the same pattern tried only with the user prefix whenever an '@' is present
HttpsMatch_NoBacktrack(remote_url) ==
    IF ~StartsWith(remote_url, HTTPS_SCHEME) THEN NoMatch
    ELSE LET rest == Slice(remote_url, Len(HTTPS_SCHEME) + 1, Len(remote_url))
             at   == IndexOf(rest, "@")
         IN  IF at > 1 THEN HttpsPath(Slice(rest, at + 1, Len(rest)))
             ELSE HttpsPath(rest)

\* re.match(https_pattern, remote_url): the optional group (?:[^@]+@)? is tried
\* first (it can only end at the first '@'), then the pattern without it
HttpsMatch(remote_url) ==
    IF ~StartsWith(remote_url, HTTPS_SCHEME) THEN NoMatch
    ELSE LET rest == Slice(remote_url, Len(HTTPS_SCHEME) + 1, Len(remote_url))
             at   == IndexOf(rest, "@")
             withUser == IF at > 1 THEN HttpsPath(Slice(rest, at + 1, Len(rest))) ELSE NoMatch
         IN  IF withUser.ok THEN withUser ELSE HttpsPath(rest)

\* the SSH pattern without its optional (?:\.git)? group
SshMatch_KeepSuffix(remote_url) ==
    IF ~StartsWith(remote_url, SSH_PREFIX) THEN NoMatch
    ELSE LET segs == Split(Slice(remote_url, Len(SSH_PREFIX) + 1, Len(remote_url)), "/")
         IN  IF /\ Len(segs) = 3
                /\ \A i \in 1..2 : Len(segs[i]) > 0
                /\ RepoGroup(segs[3]).ok
             THEN Match(segs)
             ELSE NoMatch

\* re.match(ssh_pattern, remote_url)
SshMatch(remote_url) ==
    IF ~StartsWith(remote_url, SSH_PREFIX) THEN NoMatch
    ELSE LET segs == Split(Slice(remote_url, Len(SSH_PREFIX) + 1, Len(remote_url)), "/")
         IN  IF /\ Len(segs) = 3
                /\ \A i \in 1..2 : Len(segs[i]) > 0
                /\ RepoGroup(segs[3]).ok
             THEN Match(<<segs[1], segs[2]>> \o RepoGroup(segs[3]).groups)
             ELSE NoMatch

NoneParsed == [ok |-> FALSE, server |-> <<>>, org |-> <<>>, project |-> <<>>, repo |-> <<>>]
Parsed(server, org, project, repo) ==
    [ok |-> TRUE, server |-> server, org |-> org, project |-> project, repo |-> repo]

parse_ado_remote_url(remote_url) ==
    LET h == HttpsMatch(remote_url)
        g == SshMatch(remote_url)
    IN  IF h.ok
        THEN Parsed(IF Contains(h.groups[1], PUBLIC_HOST) THEN DEFAULT_SERVER
                    ELSE HTTPS_SCHEME \o h.groups[1],
                    h.groups[2], h.groups[3], h.groups[4])
        ELSE IF g.ok
        THEN Parsed(DEFAULT_SERVER, g.groups[1], g.groups[2], g.groups[3])
        ELSE NoneParsed

\* a builder that appends the query whether or not a branch is given
build_ado_repo_url_AlwaysQuery(server, org, project, repo, branch) ==
    server \o <<"/">> \o org \o <<"/">> \o project \o <<"/", "_git", "/">> \o repo
        \o <<"?", "version=GB">> \o (IF branch # Null THEN branch.v ELSE <<>>)

\* branch is Null (None) or a Str
build_ado_repo_url(server, org, project, repo, branch) ==
    LET base_url == server \o <<"/">> \o org \o <<"/">> \o project
                    \o <<"/", "_git", "/">> \o repo
    IN  IF branch # Null /\ Len(branch.v) > 0
        THEN base_url \o <<"?", "version=GB">> \o branch.v
        ELSE base_url

\* strings of 1..n symbols of S
Strings(S, n) == UNION {[1..k -> S] : k \in 1..n}

MaxNameLen == 1
MaxRepoLen == 3
NameSyms == {"a", ".", "@"}
RepoSyms == {"a", ".", "git", "@", "?"}
(***************************************************************************)
(* Field projector (ado_utils.py get_nested_value)                         *)
(***************************************************************************)
IntV(n)    == [t |-> "int", v |-> n]
Obj(f)    == [t |-> "obj", v |-> f]        \* an API object and its attributes
Method(n) == [t |-> "method", v |-> n]     \* a bound built-in method

Raised == [ok |-> FALSE, val |-> Null]
Returned(v) == [ok |-> TRUE, val |-> v]

JSON_B5 == <<"{", "\"b\"", ":", "5", "}">>      \* the text {"b": 5}
JSON_5 == <<"5">>                               \* the text 5
NOT_JSON == <<"abc">>                           \* the text abc

\* json.loads on the texts above; any other text raises JSONDecodeError
JsonLoads(text) ==
    IF text = JSON_B5 THEN Returned(Map([k \in {<<"b">>} |-> IntV(5)]))
    ELSE IF text = JSON_5 THEN Returned(IntV(5))
    ELSE Raised

\* attribute names every str has (of those a field path here can name)
StrAttrs == {<<"upper">>}

\* getattr(current, part): an API object has the attributes it was given; a str
\* has its methods; a dict, an int, None and a method have none of these names
getattr(current, part) ==
    IF current.t = "obj"
    THEN IF part \in DOMAIN current.v THEN Returned(current.v[part]) ELSE Raised
    ELSE IF current.t = "str"
    THEN IF part \in StrAttrs THEN Returned(Method(part)) ELSE Raised
    ELSE Raised

\* parts.index(part), counted from 1
ListIndex(parts, part) ==
    CHOOSE i \in 1..Len(parts) : parts[i] = part /\ \A j \in 1..(i - 1) : parts[j] # part

\* the decoding step of the loop body (lines 112-117)
DecodeStep(current, parts, part) ==
    IF current.t = "str" /\ ListIndex(parts, part) < Len(parts)
    THEN IF JsonLoads(current.v).ok THEN JsonLoads(current.v).val ELSE current
    ELSE current

RECURSIVE Traverse(_, _, _, _)
\* the loop of get_nested_value from the i-th part up to the last-th
Traverse(current, parts, i, last) ==
    IF i > last THEN Returned(current)
    ELSE LET got == getattr(current, parts[i])
         IN  IF ~got.ok THEN Raised
             ELSE Traverse(DecodeStep(got.val, parts, parts[i]), parts, i + 1, last)

get_nested_value(obj, field_path) ==
    LET parts == Split(field_path, ".")
    IN  Traverse(obj, parts, 1, Len(parts))

MaxPathLen == 2
AttrNames == {<<"a">>, <<"b">>}
SegNames == {<<"a">>, <<"b">>, <<"upper">>}
Leaves == {Str(JSON_B5), Str(JSON_5), Str(NOT_JSON)}
Objects1 == {Obj(f) : f \in Dicts(AttrNames, Leaves)}
Objects2 == {Obj(f) : f \in Dicts(AttrNames, Leaves \cup Objects1)}
FieldPaths == {Join(<<".">>, segs) : segs \in Strings(SegNames, MaxPathLen)}

(***************************************************************************)
(* Name cache (ado_repo_db.py)                                             *)
(***************************************************************************)
Row(id, name) == [id |-> id, name |-> name]

\* INSERT OR IGNORE: a row whose id is present is left as it is
InsertOrReplace_Ignore(rows, repo) ==
    IF \E r \in rows : r.id = repo.id THEN rows
    ELSE rows \cup {Row(repo.id, repo.name)}

\* INSERT OR REPLACE INTO repos (id, name): id is the primary key, so the row
\* holding that id, if any, is deleted before the new row is inserted
InsertOrReplace(rows, repo) ==
    {r \in rows : r.id # repo.id} \cup {Row(repo.id, repo.name)}

RECURSIVE ExecuteAll(_, _)
\* the loop of upsert_all over repos, in list order
ExecuteAll(rows, repos) ==
    IF Len(repos) = 0 THEN rows
    ELSE ExecuteAll(InsertOrReplace(rows, Head(repos)), Tail(repos))

\* a refresh that empties the table before inserting
Committed_Wholesale(rows, repos) == ExecuteAll({}, repos)

\* the rows of the table once upsert_all(repos) has committed
Committed(rows, repos) == ExecuteAll(rows, repos)

NoCall == [op |-> "none", repos |-> <<>>, name |-> "", before |-> {}, found |-> FALSE, id |-> ""]

\* upsert_all(repos) (the whole function)
upsert_all(repos) ==
    /\ cache' = [exists |-> TRUE, rows |-> Committed(cache.rows, repos)]
    /\ dbcall' = [NoCall EXCEPT !.op = "upsert_all", !.repos = repos, !.before = cache.rows]

\* get_id_by_name(repo_name) (the whole function): fetchone() gives one of the
\* rows holding that name, whichever the table scan meets first
get_id_by_name(repo_name) ==
    LET hits == {r \in cache.rows : r.name = repo_name}
    IN  /\ cache' = [cache EXCEPT !.exists = TRUE]
        /\ IF hits = {}
           THEN dbcall' = [NoCall EXCEPT !.op = "get_id_by_name", !.name = repo_name,
                                         !.before = cache.rows]
           ELSE \E r \in hits :
                   dbcall' = [NoCall EXCEPT !.op = "get_id_by_name", !.name = repo_name,
                                            !.before = cache.rows,
                                            !.found = TRUE, !.id = r.id]

MaxRepos == 2
RepoIds == {"id1", "id2"}
RepoNames == {"alpha", "beta"}
RepoLists == UNION {[1..k -> [id : RepoIds, name : RepoNames]] : k \in 0..MaxRepos}

(***************************************************************************)
(* Configuration accessors and column resolver (ado_config.py)             *)
(***************************************************************************)
\* dict.get(key): None when the key is absent
DictGet(data, key) == IF key \in DOMAIN data THEN data[key] ELSE Null

\* a test that takes only None for a missing value
Falsy_NoneOnly(value) == value = Null

\* Python's `not value` for the values a document holds
Falsy(value) ==
    \/ value = Null
    \/ value.t = "str" /\ Len(value.v) = 0
    \/ value.t = "bool" /\ ~value.v
    \/ value.t = "map" /\ DOMAIN value.v = {}

RECURSIVE LStrip(_)
LStrip(s) == IF Len(s) > 0 /\ Head(s) \in Whitespace THEN LStrip(Tail(s)) ELSE s

RECURSIVE RStrip(_)
RStrip(s) ==
    IF Len(s) > 0 /\ s[Len(s)] \in Whitespace THEN RStrip(Slice(s, 1, Len(s) - 1)) ELSE s

\* str.strip()
Strip(s) == RStrip(LStrip(s))

\* [x.strip() for x in value.split(",")]
SplitStrip(value) ==
    LET pieces == Split(value, ",")
    IN  [i \in 1..Len(pieces) |-> Strip(pieces[i])]

\* RepoConfig.columns
RepoConfig_columns(data) ==
    LET value == DictGet(data, "columns")
    IN  IF Falsy(value) THEN DEFAULT_REPO_FIELDS ELSE SplitStrip(value.v)

ResolvedNames(names) == [ok |-> TRUE, names |-> names, n_names |-> 0, n_columns |-> 0]
Mismatch(n_names, n_columns) ==
    [ok |-> FALSE, names |-> <<>>, n_names |-> n_names, n_columns |-> n_columns]

\* a resolver that pads or cuts the names to the number of columns instead of failing
RepoConfig_column_names_Lenient(data) ==
    LET value == DictGet(data, "column-names")
        columns == RepoConfig_columns(data)
    IN  IF Falsy(value) THEN ResolvedNames(columns)
        ELSE ResolvedNames([i \in 1..Len(columns) |->
                              IF i <= Len(SplitStrip(value.v)) THEN SplitStrip(value.v)[i]
                              ELSE columns[i]])

\* a resolver that returns the configured names without counting them
RepoConfig_column_names_Unchecked(data) ==
    LET value == DictGet(data, "column-names")
    IN  IF Falsy(value) THEN ResolvedNames(RepoConfig_columns(data))
        ELSE ResolvedNames(SplitStrip(value.v))

\* RepoConfig.column_names: the names, or the count mismatch it exits on
RepoConfig_column_names(data) ==
    LET value == DictGet(data, "column-names")
        columns == RepoConfig_columns(data)
    IN  IF Falsy(value)
        THEN IF DictGet(data, "columns") = Null
             THEN ResolvedNames(DEFAULT_REPO_COLUMN_NAMES)
             ELSE ResolvedNames(columns)
        ELSE LET names == SplitStrip(value.v)
             IN  IF Len(names) # Len(columns)
                 THEN Mismatch(Len(names), Len(columns))
                 ELSE ResolvedNames(names)

\* RepoConfig.open
RepoConfig_open(data) ==
    LET value == DictGet(data, "open")
    IN  IF value = Null THEN TRUE ELSE ~Falsy(value)

\* AdoConfig.server
\* an accessor that ignores the configured server
AdoConfig_server_DefaultOnly(data) == Str(DEFAULT_SERVER)

AdoConfig_server(data) ==
    IF "server" \in DOMAIN data THEN data["server"] ELSE Str(DEFAULT_SERVER)

\* AdoConfig.repo: the `repo` section, {} when absent
AdoConfig_repo(data) == IF "repo" \in DOMAIN data THEN data["repo"] ELSE Map(EmptyDict)

(***************************************************************************)
(* Remote API client (ado_client.py)                                       *)
(***************************************************************************)
NoErr == [kind |-> "none", what |-> <<>>, a |-> 0, b |-> 0]
Err(kind) == [NoErr EXCEPT !.kind = kind]

\* the classification with the 'not found' test made on the text as it is
handle_sdk_exception_CaseSensitive(error_msg) ==
    IF Contains(error_msg, <<"401">>) \/ Contains(error_msg, <<"Unauthorized">>)
    THEN [Err("AdoAuthError") EXCEPT !.what = <<"Authentication failed. Check your ADO_PAT environment variable.">>]
    ELSE IF Contains(error_msg, <<"404">>) \/ Contains(error_msg, <<"not", " ", "found">>)
    THEN [Err("AdoNotFoundError") EXCEPT !.what = <<"Resource not found: ">> \o error_msg]
    ELSE [Err("AdoClientError") EXCEPT !.what = <<"Azure DevOps API error: ">> \o error_msg]

\* _handle_sdk_exception: the typed error raised for a failure text, with its message
handle_sdk_exception(error_msg) ==
    IF Contains(error_msg, <<"401">>) \/ Contains(error_msg, <<"Unauthorized">>)
    THEN [Err("AdoAuthError") EXCEPT !.what = <<"Authentication failed. Check your ADO_PAT environment variable.">>]
    ELSE IF Contains(error_msg, <<"404">>) \/ Contains(Lower(error_msg), <<"not", " ", "found">>)
    THEN [Err("AdoNotFoundError") EXCEPT !.what = <<"Resource not found: ">> \o error_msg]
    ELSE [Err("AdoClientError") EXCEPT !.what = <<"Azure DevOps API error: ">> \o error_msg]

(***************************************************************************)
(* repo list (ado.py)                                                      *)
(***************************************************************************)
RECURSIVE fnmatch(_, _)
\* fnmatch.fnmatch(name, pattern) for patterns of literals, '*' and '?'
fnmatch(name, pat) ==
    IF Len(pat) = 0 THEN Len(name) = 0
    ELSE IF Head(pat) = "*"
    THEN \E k \in 0..Len(name) : fnmatch(Slice(name, k + 1, Len(name)), Tail(pat))
    ELSE /\ Len(name) > 0
         /\ Head(pat) = "?" \/ Head(pat) = Head(name)
         /\ fnmatch(Tail(name), Tail(pat))

\* no filtering at all
Filter_Unfiltered(repos, pat) == repos

RECURSIVE Filter(_, _)
\* [repo for repo in repos if fnmatch.fnmatch(repo.name, pattern)]
Filter(repos, pat) ==
    IF Len(repos) = 0 THEN <<>>
    ELSE (IF fnmatch(Head(repos).v[<<"name">>].v, pat) THEN <<Head(repos)>> ELSE <<>>)
         \o Filter(Tail(repos), pat)

DigitSyms == <<"0", "1", "2", "3", "4", "5", "6", "7", "8", "9">>

DigitValue(c) ==
    CASE c = "0" -> 0 [] c = "1" -> 1 [] c = "2" -> 2 [] c = "3" -> 3 [] c = "4" -> 4
      [] c = "5" -> 5 [] c = "6" -> 6 [] c = "7" -> 7 [] c = "8" -> 8 [] c = "9" -> 9

RECURSIVE DecimalValue(_)
DecimalValue(ds) ==
    IF Len(ds) = 0 THEN 0
    ELSE 10 * DecimalValue(Slice(ds, 1, Len(ds) - 1)) + DigitValue(ds[Len(ds)])

\* a conversion that takes digits only, no sign
ParseInt_Unsigned(text) ==
    LET ds == Strip(text)
    IN  IF Len(ds) = 0 \/ ~(Range(ds) \subseteq Range(DigitSyms)) THEN [ok |-> FALSE, n |-> 0]
        ELSE [ok |-> TRUE, n |-> DecimalValue(ds)]

\* int(text): surrounding whitespace and one sign are accepted; ValueError otherwise
ParseInt(text) ==
    LET body   == Strip(text)
        signed == Len(body) > 0 /\ Head(body) \in {"-", "+"}
        ds     == IF signed THEN Tail(body) ELSE body
    IN  IF Len(ds) = 0 \/ ~(Range(ds) \subseteq Range(DigitSyms)) THEN [ok |-> FALSE, n |-> 0]
        ELSE [ok |-> TRUE,
              n |-> IF signed /\ Head(body) = "-" THEN 0 - DecimalValue(ds) ELSE DecimalValue(ds)]

\* str(value) if value is not None else "N/A"
Cell(value) ==
    IF value = Null THEN <<"N/A">>
    ELSE IF value.t = "str" THEN value.v
    ELSE IF value.t = "int" THEN <<"5">>
    ELSE <<"<", value.t, ">">>

RECURSIVE IntStr(_)
\* str(n) for n >= 0
IntStr(n) == IF n < 10 THEN <<DigitSyms[n + 1]>> ELSE IntStr(n \div 10) \o <<DigitSyms[(n % 10) + 1]>>

NoTable == [shown |-> FALSE, header |-> <<>>, rows |-> <<>>]
NotCalled == [t |-> "not called", repos |-> <<>>, msg |-> <<>>]
ApiOk(repos) == [t |-> "ok", repos |-> repos, msg |-> <<>>]
ApiRaise(msg) == [t |-> "raise", repos |-> <<>>, msg |-> msg]
NotRead == [t |-> "not read", v |-> <<>>]
Eof == [t |-> "eof", v |-> <<>>]
Line(s) == [t |-> "line", v |-> s]

\* what one run of a listing command took in and gave out
CliIdle ==
    [cmd |-> "none", open_repo |-> FALSE, pattern |-> Null, pat |-> "unread",
     api |-> NotCalled, line |-> NotRead, code |-> 0, err |-> NoErr, nofound |-> FALSE,
     table |-> NoTable, prompted |-> FALSE, opened |-> <<>>,
     id |-> 0,
     git |-> [inside |-> FALSE, remote_url |-> NotRead, branch |-> Null, current |-> NotRead]]

\* the cells of the rows, in row order then field order
Cells(repos, fields) ==
    [i \in 1..Len(repos) |-> [j \in 1..Len(fields) |-> get_nested_value(repos[i], fields[j])]]

\* the positions of the first row whose field does not resolve
BadCells_FirstRow(repos, fields) ==
    {p \in {1} \X (1..Len(fields)) : ~Cells(repos, fields)[p[1]][p[2]].ok}

\* the positions whose field does not resolve
BadCells(repos, fields) ==
    {p \in (1..Len(repos)) \X (1..Len(fields)) : ~Cells(repos, fields)[p[1]][p[2]].ok}

\* the first of them the row loop meets
FirstBad(repos, fields) ==
    CHOOSE p \in BadCells(repos, fields) :
        \A q \in BadCells(repos, fields) : p[1] < q[1] \/ (p[1] = q[1] /\ p[2] <= q[2])

\* the table of lines 223-245: the "#" column, then one column per name
Table(repos, fields, column_names) ==
    [shown |-> TRUE,
     header |-> <<<<"#">>>> \o column_names,
     rows |-> [i \in 1..Len(repos) |->
                 <<IntStr(i)>> \o [j \in 1..Len(fields) |-> Cell(Cells(repos, fields)[i][j].val)]]]

\* a selection that counts the rows from 0
Select_ZeroBased(r, repos, line) ==
    LET asked == [r EXCEPT !.prompted = TRUE, !.line = line]
    IN  IF line.t = "eof" THEN [asked EXCEPT !.code = 1, !.err = Err("crash")]
        ELSE LET parsed == ParseInt(line.v)
             IN  IF ~parsed.ok
                 THEN [asked EXCEPT !.code = 1, !.err = Err("invalid number")]
                 ELSE IF parsed.n < 0 \/ parsed.n >= Len(repos)
                 THEN [asked EXCEPT !.code = 1,
                                    !.err = [Err("range") EXCEPT !.a = 1, !.b = Len(repos)]]
                 ELSE [asked EXCEPT !.opened = <<repos[parsed.n + 1].v[<<"web_url">>].v>>]

\* lines 248-268: the prompt and what the line typed does
Select(r, repos, line) ==
    LET asked == [r EXCEPT !.prompted = TRUE, !.line = line]
    IN  IF line.t = "eof" THEN [asked EXCEPT !.code = 1, !.err = Err("crash")]
        ELSE LET parsed == ParseInt(line.v)
             IN  IF ~parsed.ok
                 THEN [asked EXCEPT !.code = 1, !.err = Err("invalid number")]
                 ELSE IF parsed.n < 1 \/ parsed.n > Len(repos)
                 THEN [asked EXCEPT !.code = 1,
                                    !.err = [Err("range") EXCEPT !.a = 1, !.b = Len(repos)]]
                 ELSE [asked EXCEPT !.opened = <<repos[parsed.n].v[<<"web_url">>].v>>]

\* lines 218-268: resolve the columns, render, prompt
Render(r, data, repos, open_repo, line) ==
    LET repo_data == AdoConfig_repo(data)
    IN  IF repo_data.t # "map" THEN [r EXCEPT !.code = 1, !.err = Err("crash")]
        ELSE LET fields == RepoConfig_columns(repo_data.v)
                 column_names == RepoConfig_column_names(repo_data.v)
             IN  IF ~column_names.ok
                 THEN [r EXCEPT !.code = 1,
                                !.err = [Err("mismatch") EXCEPT !.a = column_names.n_names,
                                                                !.b = column_names.n_columns]]
                 ELSE IF BadCells(repos, fields) # {}
                 THEN [r EXCEPT !.code = 1,
                                !.err = [Err("field") EXCEPT
                                            !.what = fields[FirstBad(repos, fields)[2]]]]
                 ELSE LET shown == [r EXCEPT !.table = Table(repos, fields, column_names.names)]
                      IN  IF open_repo
                          THEN Select(shown, repos, line)
                          ELSE shown

\* repo_list(pattern, open_repo) run against the file f, the environment variable,
\* the answer of the remote API and the line on standard input
repo_list(f, pattern, open_repo, pat, api, line) ==
    LET r0 == [CliIdle EXCEPT !.cmd = "repo list", !.open_repo = open_repo, !.pattern = pattern]
        cfg == read_config(f)
    IN  IF cfg.t # "map" THEN [r0 EXCEPT !.code = 1, !.err = Err("crash")]
        ELSE IF Falsy(DictGet(cfg.v, "org")) THEN [r0 EXCEPT !.code = 1, !.err = Err("org")]
        ELSE IF ~pat THEN [r0 EXCEPT !.pat = "unset", !.code = 1, !.err = Err("pat")]
        ELSE IF Falsy(DictGet(cfg.v, "project"))
        THEN [r0 EXCEPT !.pat = "set", !.code = 1, !.err = Err("project")]
        ELSE LET r1 == [r0 EXCEPT !.pat = "set", !.api = api]
             IN  IF api.t = "raise"
                 THEN [r1 EXCEPT !.code = 1, !.err = handle_sdk_exception(api.msg)]
                 ELSE LET repos == IF ~Falsy(pattern) THEN Filter(api.repos, pattern.v)
                                   ELSE api.repos
                      IN  IF Len(repos) = 0 THEN [r1 EXCEPT !.nofound = TRUE]
                          ELSE Render(r1, cfg.v, repos, open_repo, line)

\* a handler that opens the page of any remote that parses before it reports
\* that the directory is no git repository
repo_browse_Eager(branch, inside, remote_out, current) ==
    LET r1 == [CliIdle EXCEPT !.cmd = "repo browse", !.git.branch = branch,
                              !.git.inside = inside,
                              !.git.remote_url = IF remote_out = Null THEN Null
                                                 ELSE Str(Strip(remote_out.v))]
        parsed == parse_ado_remote_url(r1.git.remote_url.v)
        r2 == IF remote_out # Null /\ parsed.ok
              THEN [r1 EXCEPT !.opened = <<build_ado_repo_url(parsed.server, parsed.org,
                                              parsed.project, parsed.repo, branch)>>]
              ELSE r1
    IN  IF ~inside THEN [r2 EXCEPT !.code = 1, !.err = Err("not a git repository")]
        ELSE IF remote_out = Null THEN [r2 EXCEPT !.code = 1, !.err = Err("no remote")]
        ELSE IF ~parsed.ok THEN [r2 EXCEPT !.code = 1, !.err = Err("not an ADO URL")]
        ELSE r2

\* repo_browse(branch) run where is_git_repository answers `inside`, git prints
\* remote_out for the remote (Null: no such remote) and `current` for the branch
repo_browse(branch, inside, remote_out, current) ==
    LET r0 == [CliIdle EXCEPT !.cmd = "repo browse", !.git.branch = branch]
        r1 == [r0 EXCEPT !.git.inside = TRUE,
                         !.git.remote_url = IF remote_out = Null THEN Null
                                            ELSE Str(Strip(remote_out.v))]
        parsed == parse_ado_remote_url(r1.git.remote_url.v)
        branch_to_use == IF branch = Null THEN current ELSE branch
    IN  IF ~inside THEN [r0 EXCEPT !.code = 1, !.err = Err("not a git repository")]
        ELSE IF remote_out = Null THEN [r1 EXCEPT !.code = 1, !.err = Err("no remote")]
        ELSE IF ~parsed.ok THEN [r1 EXCEPT !.code = 1, !.err = Err("not an ADO URL")]
        ELSE [r1 EXCEPT !.git.current = IF branch = Null THEN current ELSE NotRead,
                        !.opened = <<build_ado_repo_url(parsed.server, parsed.org, parsed.project,
                                                        parsed.repo, branch_to_use)>>]

\* build_ado_workitem_url(server, org, project, workitem_id)
build_ado_workitem_url(server, org, project, workitem_id) ==
    server \o <<"/">> \o org \o <<"/">> \o project
        \o <<"/", "_workitems", "/", "edit", "/">> \o IntStr(workitem_id)

\* workitem_browse(id) run against the file f
workitem_browse(f, id) ==
    LET r0 == [CliIdle EXCEPT !.cmd = "workitem browse", !.id = id]
        cfg == read_config(f)
    IN  IF cfg.t # "map" THEN [r0 EXCEPT !.code = 1, !.err = Err("crash")]
        ELSE IF Falsy(DictGet(cfg.v, "org")) THEN [r0 EXCEPT !.code = 1, !.err = Err("org")]
        ELSE IF Falsy(DictGet(cfg.v, "project"))
        THEN [r0 EXCEPT !.code = 1, !.err = Err("project")]
        ELSE [r0 EXCEPT !.opened = <<build_ado_workitem_url(AdoConfig_server(cfg.v).v,
                                        DictGet(cfg.v, "org").v, DictGet(cfg.v, "project").v, id)>>]

(***************************************************************************)
(* build list: its handler is not part of the sources; the selection step  *)
(* follows the written contract of the interactive selector                *)
(***************************************************************************)
\* build.open, true when absent
BuildConfig_open(data) ==
    LET section == IF "build" \in DOMAIN data THEN data["build"] ELSE Map(EmptyDict)
    IN  IF section.t # "map" THEN TRUE
        ELSE IF DictGet(section.v, "open") = Null THEN TRUE
        ELSE ~Falsy(DictGet(section.v, "open"))

\* the same listing with the severities of the repo-list selector
build_list_Severe(f, count, line) ==
    LET r0 == [CliIdle EXCEPT !.cmd = "build list", !.pat = "set", !.api = ApiOk(<<>>),
                              !.table = [shown |-> TRUE, header |-> <<<<"#">>>>,
                                         rows |-> [i \in 1..count |-> <<IntStr(i)>>]]]
        cfg == read_config(f)
    IN  IF cfg.t # "map" THEN [CliIdle EXCEPT !.cmd = "build list", !.code = 1, !.err = Err("crash")]
        ELSE IF ~BuildConfig_open(cfg.v) THEN r0
        ELSE LET asked == [r0 EXCEPT !.prompted = TRUE, !.line = line]
                 parsed == ParseInt(line.v)
             IN  IF line.t = "eof" \/ Len(Strip(line.v)) = 0 THEN asked
                 ELSE IF ~parsed.ok THEN [asked EXCEPT !.code = 1, !.err = Err("invalid input")]
                 ELSE IF parsed.n < 1 \/ parsed.n > count
                 THEN [asked EXCEPT !.code = 1, !.err = [Err("invalid selection") EXCEPT !.a = 1, !.b = count]]
                 ELSE [asked EXCEPT !.opened = <<<<"build">> \o IntStr(parsed.n)>>]

\* the listing of `count` builds, then the prompt when build.open asks for it
build_list(f, count, line) ==
    LET r0 == [CliIdle EXCEPT !.cmd = "build list", !.pat = "set", !.api = ApiOk(<<>>),
                              !.table = [shown |-> TRUE, header |-> <<<<"#">>>>,
                                         rows |-> [i \in 1..count |-> <<IntStr(i)>>]]]
        cfg == read_config(f)
    IN  IF cfg.t # "map" THEN [CliIdle EXCEPT !.cmd = "build list", !.code = 1, !.err = Err("crash")]
        ELSE IF ~BuildConfig_open(cfg.v) THEN r0
        ELSE LET asked == [r0 EXCEPT !.prompted = TRUE, !.line = line]
                 parsed == ParseInt(line.v)
             IN  IF line.t = "eof" \/ Len(Strip(line.v)) = 0 THEN asked
                 ELSE IF ~parsed.ok THEN [asked EXCEPT !.err = Err("invalid input")]
                 ELSE IF parsed.n < 1 \/ parsed.n > count
                 THEN [asked EXCEPT !.err = [Err("invalid selection") EXCEPT !.a = 1, !.b = count]]
                 ELSE [asked EXCEPT !.opened = <<<<"build">> \o IntStr(parsed.n)>>]

(***************************************************************************)
(* The parts of the state a specification does not use stay idle           *)
(***************************************************************************)
UrlIdle == [pc |-> "idle", server |-> <<>>, org |-> <<>>, project |-> <<>>,
            repo |-> <<>>, branch |-> Null, url |-> <<>>, parsed |-> NoneParsed]
NestedIdle == [pc |-> "idle", obj |-> Null, path |-> <<>>, res |-> Raised]

IdleConfig == file = NoFile /\ out = Outcome("none", 0, NoArgs, NoFile, EmptyDict)
IdleUrl == remote = UrlIdle
IdleNested == nested = NestedIdle
IdleList == cli = CliIdle
IdleRace == procs = <<NoProc, NoProc>>
IdleDb ==
    /\ cache = [exists |-> FALSE, rows |-> {}]
    /\ dbcall = NoCall
    /\ latest = EmptyDict
    /\ past = {}

(***************************************************************************)
(* Specification of the config commands                                    *)
(***************************************************************************)
OldVal == <<"old">>
NewVal == <<"new">>

\* repo mappings a hand-edited file may hold
InitRepoMaps ==
    {Map(m) : m \in UNION {Dicts({"columns", "column-names"}, {Str(OldVal)}),
                           {Put(m0, "open", Bool(TRUE)) :
                                m0 \in Dicts({"columns", "column-names"}, {Str(OldVal)})}}}

\* documents a hand-edited file may hold ("extra" is a key the tool does not know;
\* a `repo` that is a scalar or null is a value PyYAML loads as a non-mapping)
InitDocs ==
    UNION {{d, Put(d, "repo", r)} :
            <<d, r>> \in Dicts({"org", "server", "extra"}, {Str(OldVal)})
                         \X (InitRepoMaps \cup {Str(OldVal), Null})}

\* no file, an empty file, a file holding a scalar, a file holding a mapping
InitFiles == {NoFile, Null, Str(OldVal)} \cup {Map(d) : d \in InitDocs}

\* option values of `config set`; --project takes the same path as --org (ado.py 91-94)
SetArgs ==
    [project : {Null}, org : {Null, Str(NewVal)}, server : {Null, Str(NewVal)},
     repo_columns : {Null, Str(NewVal)}, repo_column_names : {Null, Str(NewVal)},
     repo_open : {Null, Str(<<"true">>), Str(<<"FALSE">>), Str(<<"yes">>)}]

InitConfig ==
    /\ file \in InitFiles
    /\ out = Outcome("none", 0, NoArgs, NoFile, EmptyDict)
    /\ IdleUrl /\ IdleNested /\ IdleDb /\ IdleList /\ IdleRace

ConfigInit == config_init /\ UNCHANGED <<remote, nested, dbVars, cli, procs>>
ConfigSet == (\E args \in SetArgs : config_set(args)) /\ UNCHANGED <<remote, nested, dbVars, cli, procs>>
ConfigList == config_list /\ UNCHANGED <<remote, nested, dbVars, cli, procs>>

NextConfig == ConfigInit \/ ConfigSet \/ ConfigList

SpecConfig == InitConfig /\ [][NextConfig]_vars

(***************************************************************************)
(* C1: read-merge-write                                                    *)
(***************************************************************************)
\* the top-level keys and the keys of the `repo` mapping an invocation names
NamedTop(args) == {k \in {"project", "org", "server"} : args[k] # Null}
NamedRepo(args) ==
    {j \in {"columns", "column-names", "open"} :
        \/ j = "columns" /\ args.repo_columns # Null
        \/ j = "column-names" /\ args.repo_column_names # Null
        \/ j = "open" /\ args.repo_open # Null}

\* the value an invocation supplies for a key of the `repo` mapping
SuppliedRepo(args, j) ==
    IF j = "columns" THEN args.repo_columns
    ELSE IF j = "column-names" THEN args.repo_column_names
    ELSE Bool(args.repo_open.v \in {<<"true">>, <<"TRUE">>})

\* the keys named by the invocation hold the supplied values in W, and W has no
\* key that is neither in D nor named
Overwritten(D, W, args) ==
    /\ \A k \in NamedTop(args) : k \in DOMAIN W /\ W[k] = args[k]
    /\ NamedRepo(args) # {} =>
          /\ "repo" \in DOMAIN W
          /\ W["repo"].t = "map"
          /\ \A j \in NamedRepo(args) :
                j \in DOMAIN W["repo"].v /\ W["repo"].v[j] = SuppliedRepo(args, j)
          /\ DOMAIN W["repo"].v \subseteq
                NamedRepo(args) \cup
                (IF "repo" \in DOMAIN D /\ D["repo"].t = "map"
                 THEN DOMAIN D["repo"].v ELSE {})
    /\ DOMAIN W \subseteq
          (DOMAIN D) \cup NamedTop(args) \cup (IF NamedRepo(args) # {} THEN {"repo"} ELSE {})

\* a `repo` mapping of D keeps every key the invocation does not name
RepoKeysKept(D, W, args) ==
    /\ W["repo"].t = "map"
    /\ \A j \in (DOMAIN D["repo"].v) \ NamedRepo(args) :
          j \in DOMAIN W["repo"].v /\ W["repo"].v[j] = D["repo"].v[j]

\* the document a file holds, as a user reads it: no file or an empty file holds no key
DocumentOf(f) == IF f.t = "map" THEN f.v ELSE EmptyDict

\* C1 (as claimed): after a successful `config set`, the file is the previous
\* document with exactly the named keys overwritten; every top-level key not
\* named (`repo` included, whatever value it held) and every unnamed key inside
\* the `repo` mapping keeps its previous value.
C1_Original ==
    (out.cmd = "set" /\ out.code = 0) =>
        LET D == DocumentOf(out.before)
            W == file.v
        IN  /\ file.t = "map"
            /\ Overwritten(D, W, out.args)
            /\ \A k \in (DOMAIN D) \ NamedTop(out.args) :
                  /\ k \in DOMAIN W
                  /\ IF k = "repo" /\ NamedRepo(out.args) # {} /\ D[k].t = "map"
                     THEN RepoKeysKept(D, W, out.args)
                     ELSE W[k] = D[k]

\* C1 (amended): as C1, for documents whose `repo` value is absent or a mapping,
\* or invocations naming no repo.* option; when `repo` holds a non-mapping value
\* and a repo.* option is named, that value is replaced by a mapping holding
\* exactly the named repo keys.
C1_ReadMergeWrite ==
    (out.cmd = "set" /\ out.code = 0) =>
        LET D == DocumentOf(out.before)
            W == file.v
        IN  /\ file.t = "map"
            /\ Overwritten(D, W, out.args)
            /\ \A k \in (DOMAIN D) \ NamedTop(out.args) :
                  /\ k \in DOMAIN W
                  /\ IF k = "repo" /\ NamedRepo(out.args) # {}
                     THEN IF D[k].t = "map"
                          THEN RepoKeysKept(D, W, out.args)
                          ELSE DOMAIN W[k].v = NamedRepo(out.args)
                     ELSE W[k] = D[k]

\* a successful `config set --repo.columns` on a document holding an unknown
\* key and a repo mapping with column-names
C1_Witness ==
    /\ out.cmd = "set" /\ out.code = 0
    /\ out.before.t = "map"
    /\ {"extra", "repo"} \subseteq DOMAIN out.before.v
    /\ out.before.v["repo"].t = "map"
    /\ "column-names" \in DOMAIN out.before.v["repo"].v
    /\ out.args.repo_columns # Null
    /\ out.args.repo_column_names = Null
    /\ out.args.org # Null
    /\ file # out.before

(***************************************************************************)
(* Specification of the URL round trip                                     *)
(***************************************************************************)
\* a public-cloud repository named by org, project and repo
InitUrl ==
    /\ \E org \in Strings(NameSyms, MaxNameLen), project \in Strings(NameSyms, MaxNameLen),
          repo \in Strings(RepoSyms, MaxRepoLen) :
          remote = [UrlIdle EXCEPT !.pc = "start", !.server = DEFAULT_SERVER,
                              !.org = org, !.project = project, !.repo = repo]
    /\ IdleConfig /\ IdleNested /\ IdleDb /\ IdleList /\ IdleRace

BuildRepoUrl ==
    /\ remote.pc = "start"
    /\ remote' = [remote EXCEPT !.pc = "built",
                      !.url = build_ado_repo_url(remote.server, remote.org, remote.project, remote.repo, remote.branch)]
    /\ UNCHANGED <<configVars, nested, dbVars, cli>>

ParseRemoteUrl ==
    /\ remote.pc = "built"
    /\ remote' = [remote EXCEPT !.pc = "parsed", !.parsed = parse_ado_remote_url(remote.url)]
    /\ UNCHANGED <<configVars, nested, dbVars, cli>>

NextUrl == BuildRepoUrl \/ ParseRemoteUrl

SpecUrl == InitUrl /\ [][NextUrl]_vars

\* C2 (as claimed): for all non-empty org, project and repo without '/' or
\* whitespace, repo names with any suffix included, parsing the URL built for
\* the public cloud returns exactly (https://dev.azure.com, org, project, repo).
C2_Original ==
    remote.pc = "parsed" => remote.parsed = Parsed(DEFAULT_SERVER, remote.org, remote.project, remote.repo)

\* C2 (amended): the round trip returns (https://dev.azure.com, org, project, repo)
\* when repo does not end in '.git' after at least one character; for a repo
\* named r + '.git' with r non-empty it returns r, one suffix removed.
C2_LeftInverse ==
    remote.pc = "parsed" =>
        remote.parsed = Parsed(DEFAULT_SERVER, remote.org, remote.project,
                          IF Len(remote.repo) > 2 /\ EndsWith(remote.repo, DOT_GIT)
                          THEN Slice(remote.repo, 1, Len(remote.repo) - 2)
                          ELSE remote.repo)

\* the round trip of names holding '@' and '?' has been made
C2_Witness ==
    /\ remote.pc = "parsed"
    /\ "@" \in Range(remote.org)
    /\ {"@", "?"} \subseteq Range(remote.repo)
    /\ remote.parsed.ok
    /\ remote.parsed.repo = remote.repo

(***************************************************************************)
(* Specification of the field projector                                    *)
(***************************************************************************)
InitNested ==
    /\ \E obj \in Objects2, path \in FieldPaths :
          nested = [pc |-> "start", obj |-> obj, path |-> path, res |-> Raised]
    /\ IdleConfig /\ IdleUrl /\ IdleDb /\ IdleList /\ IdleRace

GetNestedValue ==
    /\ nested.pc = "start"
    /\ nested' = [nested EXCEPT !.pc = "done",
                                !.res = get_nested_value(nested.obj, nested.path)]
    /\ UNCHANGED <<configVars, remote, dbVars, cli>>

NextNested == GetNestedValue

SpecNested == InitNested /\ [][NextNested]_vars

\* the value a path names, as the field projector is specified: an attribute of
\* an object or a key of a decoded JSON object per segment, a string met before
\* the last segment being decoded when it is JSON
RECURSIVE Lookup(_, _, _, _)
Lookup(v, parts, i, decoded) ==
    IF i > Len(parts) THEN [ok |-> TRUE, val |-> v, decoded |-> decoded]
    ELSE IF ~(v.t \in {"obj", "map"} /\ parts[i] \in DOMAIN v.v)
    THEN [ok |-> FALSE, val |-> Null, decoded |-> decoded]
    ELSE LET w == v.v[parts[i]]
         IN  IF w.t = "str" /\ i < Len(parts) /\ JsonLoads(w.v).ok
             THEN Lookup(JsonLoads(w.v).val, parts, i + 1, TRUE)
             ELSE Lookup(w, parts, i + 1, decoded)

\* C3: when an intermediate segment yields a string that parses as JSON and a
\* segment remains, traversal continues into the parsed structure and the value
\* stored under the remaining segments is returned (path a.b on a = '{"b": 5}'
\* gives 5).
C3_EmbeddedJson ==
    nested.pc = "done" =>
        LET want == Lookup(nested.obj, Split(nested.path, "."), 1, FALSE)
        IN  (want.ok /\ want.decoded) => nested.res = Returned(want.val)

\* C4: the value retrieved by the final segment of the path is never decoded:
\* a string retrieved by the last segment is returned unchanged, also when the
\* name of the last segment occurs earlier in the path.
C4_FinalRaw ==
    nested.pc = "done" =>
        LET parts == Split(nested.path, ".")
            before == Traverse(nested.obj, parts, 1, Len(parts) - 1)
            final == getattr(before.val, parts[Len(parts)])
        IN  (before.ok /\ final.ok /\ final.val.t = "str") =>
                nested.res = Returned(final.val)

\* a call whose last segment retrieved a JSON string, on a path that names the
\* same attribute twice
C4_Witness ==
    /\ nested.pc = "done"
    /\ nested.path = <<"a", ".", "a">>
    /\ <<"a">> \in DOMAIN nested.obj.v
    /\ nested.obj.v[<<"a">>].t = "obj"
    /\ <<"a">> \in DOMAIN nested.obj.v[<<"a">>].v
    /\ nested.obj.v[<<"a">>].v[<<"a">>] = Str(JSON_5)

(***************************************************************************)
(* Specification of the name cache                                         *)
(***************************************************************************)
\* no database file yet
InitDb == IdleDb /\ IdleConfig /\ IdleUrl /\ IdleNested /\ IdleList /\ IdleRace

RECURSIVE LastNames(_, _)
\* history: the name each id was last given by the calls so far
LastNames(names, repos) ==
    IF Len(repos) = 0 THEN names
    ELSE LastNames(Put(names, Head(repos).id, Head(repos).name), Tail(repos))

UpsertAll ==
    /\ \E repos \in RepoLists :
          /\ upsert_all(repos)
          /\ latest' = LastNames(latest, repos)
          /\ past' = past \cup Range(repos)
    /\ UNCHANGED <<configVars, remote, nested, cli>>

GetIdByName ==
    /\ \E repo_name \in RepoNames : get_id_by_name(repo_name)
    /\ UNCHANGED <<latest, past, configVars, remote, nested, cli>>

NextDb == UpsertAll \/ GetIdByName

SpecDb == InitDb /\ [][NextDb]_vars

\* the ids of a list of repositories, and the name the list gives an id last
IdsOf(repos) == {repos[i].id : i \in 1..Len(repos)}
LastNameIn(repos, id) ==
    repos[CHOOSE i \in 1..Len(repos) :
            repos[i].id = id /\ \A j \in (i + 1)..Len(repos) : repos[j].id # id].name

\* C5 (as claimed): after upsert_all(R) the cache holds exactly the (id, name)
\* entries of R, whatever it held before.
C5_Original ==
    dbcall.op = "upsert_all" =>
        cache.rows = {Row(id, LastNameIn(dbcall.repos, id)) : id \in IdsOf(dbcall.repos)}

\* C5 (amended): after upsert_all(R) the cache holds the entries of R (the last
\* one per id) together with every prior entry whose id is not in R.
C5_Upsert ==
    dbcall.op = "upsert_all" =>
        cache.rows = {Row(id, LastNameIn(dbcall.repos, id)) : id \in IdsOf(dbcall.repos)}
                     \cup {r \in dbcall.before : r.id \notin IdsOf(dbcall.repos)}

\* a refresh that does not name an id cached by an earlier refresh
C5_Witness ==
    /\ dbcall.op = "upsert_all"
    /\ Len(dbcall.repos) > 0
    /\ \E r \in dbcall.before : r.id \notin IdsOf(dbcall.repos) /\ r \in cache.rows

\* C6: after any sequence of upsert_all calls the cache holds at most one entry
\* per id, carrying the name most recently upserted for that id; get_id_by_name(n)
\* returns an id whose current name is n, or None when no id has name n; and
\* get_id_by_name never changes the stored entries.
C6_CacheEntries ==
    /\ \A r1, r2 \in cache.rows : r1.id = r2.id => r1 = r2
    /\ cache.rows = {Row(id, latest[id]) : id \in DOMAIN latest}
    /\ dbcall.op = "get_id_by_name" =>
          /\ cache.rows = dbcall.before
          /\ IF dbcall.found THEN Row(dbcall.id, dbcall.name) \in cache.rows
             ELSE \A r \in cache.rows : r.name # dbcall.name

\* the old name of a renamed id is looked up and gives no id
C6_Witness ==
    /\ dbcall.op = "get_id_by_name"
    /\ ~dbcall.found
    /\ \E r \in cache.rows : Row(r.id, dbcall.name) \in past /\ r.name # dbcall.name

(***************************************************************************)
(* Specification of the listing commands                                   *)
(***************************************************************************)
MaxListed == 2       \* most repositories the API returns

\* a repository as the API returns it
Repo(id, name, web_url, project) ==
    Obj([k \in {<<"id">>, <<"name">>, <<"web_url">>, <<"project">>} |->
            IF k = <<"id">> THEN Str(id)
            ELSE IF k = <<"name">> THEN Str(name)
            ELSE IF k = <<"web_url">> THEN Str(web_url)
            ELSE project])

REPO_A == Repo(<<"id-a">>, <<"m", "a">>, <<"url-a">>, Obj([k \in {<<"name">>} |-> Str(<<"proj">>)]))
REPO_B == Repo(<<"id-b">>, <<"b">>, <<"url-b">>, Null)

\* the listings the API answers with: no repetition, at most MaxListed entries
ApiLists ==
    {l \in UNION {[1..k -> {REPO_A, REPO_B}] : k \in 0..MaxListed} :
        \A i, j \in 1..Len(l) : l[i] = l[j] => i = j}

ApiAnswers ==
    {ApiOk(l) : l \in ApiLists}
        \cup {ApiRaise(msg) : msg \in
                {<<"HTTP", " ", "401">>, <<"Unauthorized">>, <<"unauthorized">>,
                 <<"HTTP", " ", "404">>, <<"proj", " ", "not", " ", "found">>,
                 <<"Not", " ", "Found">>, <<"401", " ", "not", " ", "found">>, <<"boom">>}}

\* values a file may hold under repo.columns and repo.column-names
ColumnsValues ==
    {<<>>, <<"id", ",", "name">>, <<"name">>, <<"name", ",", " ", "web_url">>,
     <<"name", ",", "project", ".", "name">>}
NamesValues ==
    {<<>>, <<"A">>, <<"A", ",", " ", "B">>, <<"A", ",", "B", ",", "C">>}

ListRepoMaps ==
    {Update(Update(c, n), o) :
        c \in {EmptyDict} \cup {Put(EmptyDict, "columns", Str(v)) : v \in ColumnsValues},
        n \in {EmptyDict} \cup {Put(EmptyDict, "column-names", Str(v)) : v \in NamesValues},
        o \in {EmptyDict} \cup {Put(EmptyDict, "open", Bool(b)) : b \in BOOLEAN}}

\* the documents the listing commands are run against
ListDocs ==
    {Update(Update(g, p), r) :
        g \in {EmptyDict, Put(EmptyDict, "org", Str(<<>>)), Put(EmptyDict, "org", Str(<<"org">>)),
               Put(Put(EmptyDict, "org", Str(<<"org">>)), "pat", Str(<<"token">>))},
        p \in {EmptyDict, Put(EmptyDict, "project", Str(<<>>)),
               Put(EmptyDict, "project", Str(<<"proj">>))},
        r \in {EmptyDict} \cup {Put(EmptyDict, "repo", Map(m)) : m \in ListRepoMaps}
                \cup {Put(EmptyDict, "build", Map(m)) :
                       m \in {EmptyDict} \cup {Put(EmptyDict, "open", Bool(b)) : b \in BOOLEAN}}}
    \cup {Put(Update(g, p), "server", Str(<<"https", ":", "/", "/", "tfs", ".", "corp">>)) :
            g \in {EmptyDict, Put(EmptyDict, "org", Str(<<"Acme">>))},
            p \in {EmptyDict, Put(EmptyDict, "project", Str(<<"Wid", "/", "gets">>))}}

Patterns == {Null, Str(<<>>), Str(<<"m", "*">>), Str(<<"?">>)}

\* lines typed at the prompt; Eof is a closed standard input
Lines ==
    {Eof} \cup {Line(s) : s \in {<<>>, <<"1">>, <<"2">>, <<"3">>, <<"0">>, <<"-", "1">>, <<"abc">>,
                                  <<" ", "1">>}}

InitList ==
    /\ file \in {NoFile} \cup {Map(d) : d \in ListDocs}
    /\ out = Outcome("none", 0, NoArgs, NoFile, EmptyDict)
    /\ IdleList /\ IdleRace /\ IdleUrl /\ IdleNested /\ IdleDb

\* one run of `ado repo list [--pattern P] [--open]`
RepoList ==
    /\ cli.cmd = "none"
    /\ \E pattern \in Patterns, open_repo \in BOOLEAN, pat \in BOOLEAN,
          api \in ApiAnswers, line \in Lines :
          cli' = repo_list(file, pattern, open_repo, pat, api, line)
    /\ UNCHANGED <<configVars, remote, nested, dbVars>>

\* one run of `ado build list`
BuildList ==
    /\ cli.cmd = "none"
    /\ read_config(file).t = "map"
    /\ ~Falsy(DictGet(read_config(file).v, "org"))
    /\ ~Falsy(DictGet(read_config(file).v, "project"))
    /\ \E count \in 1..MaxListed, line \in Lines : cli' = build_list(file, count, line)
    /\ UNCHANGED <<configVars, remote, nested, dbVars>>

\* one call of AdoClient.get_repo: the repository, or the typed error raised
GetRepo ==
    /\ cli.cmd = "none"
    /\ \E api \in ApiAnswers :
          /\ api.t = "ok" => Len(api.repos) = 1
          /\ cli' = [CliIdle EXCEPT !.cmd = "get_repo", !.pat = "set", !.api = api,
                                    !.err = IF api.t = "raise" THEN handle_sdk_exception(api.msg)
                                            ELSE NoErr]
    /\ UNCHANGED <<configVars, remote, nested, dbVars>>

\* one run of `ado workitem browse --id N`
WorkitemBrowse ==
    /\ cli.cmd = "none"
    /\ \E id \in {1, 42} : cli' = workitem_browse(file, id)
    /\ UNCHANGED <<configVars, remote, nested, dbVars>>

\* one run of `ado repo browse [--branch B]`
RepoBrowse ==
    /\ cli.cmd = "none"
    /\ \E branch \in {Null, Str(<<>>), Str(<<"feature", "/", "x">>)}, inside \in BOOLEAN,
          remote_out \in {Null, Str(<<"abc">>),
                          Str(HTTPS_SCHEME \o <<"u", "@", "tfs", ".", "corp", "/", "Acme", "/",
                                                "Widgets", "/", "_git", "/", "core", "\n">>),
                          Str(SSH_PREFIX \o <<"Acme", "/", "Widgets", "/", "core", ".", "git">>)},
          current \in {Null, Str(<<>>), Str(<<"main">>)} :
          cli' = repo_browse(branch, inside, remote_out, current)
    /\ UNCHANGED <<configVars, remote, nested, dbVars>>

NextList == RepoList \/ BuildList \/ GetRepo \/ WorkitemBrowse \/ RepoBrowse

SpecList == InitList /\ [][NextList]_vars

\* the repo section of the file, empty when there is none
RepoSection(f) ==
    IF f.t = "map" /\ "repo" \in DOMAIN f.v /\ f.v["repo"].t = "map" THEN f.v["repo"].v
    ELSE EmptyDict

\* the number of comma-separated entries of a text
CountCsv(text) == Cardinality({i \in 1..Len(text) : text[i] = ","}) + 1

NamesText(f) == DictGet(RepoSection(f), "column-names")
ColumnsText(f) == DictGet(RepoSection(f), "columns")

\* the field list the table is built from
ResolvedFields(f) ==
    IF ColumnsText(f) = Null \/ Len(ColumnsText(f).v) = 0 THEN DEFAULT_REPO_FIELDS
    ELSE SplitStrip(ColumnsText(f).v)

NumFields(f) == Len(ResolvedFields(f))
NumNames(f) == CountCsv(NamesText(f).v)

\* the headers of the data columns of the table shown
ShownNames == Tail(cli.table.header)

\* the run reports the count mismatch, naming both counts, and renders nothing
MismatchReported ==
    /\ cli.code = 1
    /\ cli.err = [Err("mismatch") EXCEPT !.a = NumNames(file), !.b = NumFields(file)]
    /\ ~cli.table.shown
    /\ ~cli.prompted

\* C7: when no column names are configured, the table of `repo list` is headed by
\* the default names ['repo_id', 'repo_name'] exactly when the resolved fields are
\* the default fields ['id', 'name'] (defaulted or configured as such), and by
\* the fields themselves otherwise
C7_DefaultNames ==
    (cli.cmd = "repo list" /\ cli.table.shown /\ NamesText(file) = Null)
        => ShownNames = IF ResolvedFields(file) = DEFAULT_REPO_FIELDS
                        THEN DEFAULT_REPO_COLUMN_NAMES
                        ELSE ResolvedFields(file)

\* columns configured as 'id,name', no names: the table is headed 'id', 'name'
C7_Witness ==
    /\ cli.cmd = "repo list" /\ cli.table.shown
    /\ NamesText(file) = Null
    /\ ColumnsText(file) = Str(<<"id", ",", "name">>)
    /\ ShownNames = DEFAULT_REPO_FIELDS

\* C8 as stated: whenever the API answered (with any list, the empty one too) and
\* column names are configured, unequal counts make `repo list` report the
\* mismatch with both counts, exit 1 and render no table; equal counts never do
C8_Original ==
    (cli.cmd = "repo list" /\ cli.api.t = "ok"
       /\ NamesText(file) # Null /\ Len(NamesText(file).v) > 0)
        => /\ NumNames(file) # NumFields(file) => MismatchReported
           /\ NumNames(file) = NumFields(file) => cli.err.kind # "mismatch"

\* C8: when at least one repository is to be listed and the configured names are a
\* non-empty text, unequal counts make `repo list` report the mismatch with both
\* counts, exit 1 and render no table; the mismatch is never reported for equal
\* counts
C8_Mismatch ==
    /\ (cli.cmd = "repo list" /\ cli.api.t = "ok" /\ ~cli.nofound
          /\ NamesText(file) # Null /\ Len(NamesText(file).v) > 0
          /\ NumNames(file) # NumFields(file))
        => MismatchReported
    /\ cli.err.kind = "mismatch"
        => NamesText(file) # Null /\ NumNames(file) # NumFields(file)

\* three names against the two default fields, one repository listed
C8_Witness ==
    /\ cli.cmd = "repo list" /\ Len(cli.api.repos) > 0
    /\ NamesText(file) = Str(<<"A", ",", "B", ",", "C">>)
    /\ ColumnsText(file) = Null
    /\ cli.err = [Err("mismatch") EXCEPT !.a = 3, !.b = 2]
    /\ cli.code = 1

\* C9: at the selection prompt of repo list and of build list an empty line is a
\* no-op: nothing is opened, no error is reported, the exit code is 0
C9_EmptyLineNoOp ==
    (cli.prompted /\ cli.line = Line(<<>>))
        => cli.opened = <<>> /\ cli.err = NoErr /\ cli.code = 0

\* an empty line at the prompt of repo list: "Invalid number", exit code 1
C9_Witness ==
    /\ cli.cmd = "repo list" /\ cli.prompted /\ cli.line = Line(<<>>)
    /\ cli.err.kind = "invalid number" /\ cli.code = 1

\* repo.open as configured, true when the key is absent
ConfiguredOpen(f) ==
    DictGet(RepoSection(f), "open") = Null \/ DictGet(RepoSection(f), "open") = Bool(TRUE)

\* C10: once the table is shown, `repo list` prompts exactly when --open is passed
\* or repo.open is true (or absent); with repo.open false and no flag it shows no
\* prompt, reads no input and opens nothing
C10_PromptIffFlagOrConfig ==
    (cli.cmd = "repo list" /\ cli.table.shown)
        => /\ cli.prompted <=> (cli.open_repo \/ ConfiguredOpen(file))
           /\ (~cli.open_repo /\ ~ConfiguredOpen(file))
                => ~cli.prompted /\ cli.line = NotRead /\ cli.opened = <<>>

\* repo.open is true in the file, no flag: the table is shown and no prompt follows
C10_Witness ==
    /\ cli.cmd = "repo list" /\ cli.table.shown /\ ~cli.open_repo
    /\ DictGet(RepoSection(file), "open") = Bool(TRUE)
    /\ ~cli.prompted /\ cli.line = NotRead

\* C20: `config init` on an existing configuration file, whatever it holds (an
\* empty file too), exits with code 1 and leaves the file as it was
C20_InitRefuses ==
    (out.cmd = "init" /\ out.before # NoFile) => out.code = 1 /\ file = out.before

\* `config init` has been refused on an empty file
C20_Witness ==
    out.cmd = "init" /\ out.before = Null /\ out.code = 1 /\ file = Null

\* the three keys of a listing section
SectionKeys == {"columns", "column-names", "open"}

C22_SetNested ==
    (out.cmd = "set" /\ out.code = 0 /\ out.args = [NoArgs EXCEPT !.repo_columns = Str(NewVal)])
        => LET D == DocumentOf(out.before)
               W == file.v
           IN  /\ "repo" \in DOMAIN W /\ W["repo"].t = "map"
               /\ W["repo"].v["columns"] = Str(NewVal)
               /\ IF "repo" \in DOMAIN D /\ D["repo"].t = "map"
                  THEN /\ DOMAIN W["repo"].v = DOMAIN D["repo"].v \cup {"columns"}
                       /\ \A j \in DOMAIN D["repo"].v \ {"columns"} :
                             W["repo"].v[j] = D["repo"].v[j]
                  ELSE DOMAIN W["repo"].v = {"columns"}
               /\ DOMAIN W = DOMAIN D \cup {"repo"}
               /\ \A k \in DOMAIN D \ {"repo"} : W[k] = D[k]

\* a scalar `repo` has been replaced by {columns: v}, the key `extra` kept
C22_Witness ==
    /\ out.cmd = "set" /\ out.code = 0
    /\ out.args = [NoArgs EXCEPT !.repo_columns = Str(NewVal)]
    /\ out.before.t = "map" /\ "repo" \in DOMAIN out.before.v
    /\ out.before.v["repo"] = Str(OldVal) /\ "extra" \in DOMAIN out.before.v
    /\ file.v["repo"] = Map(Put(EmptyDict, "columns", Str(NewVal)))
    /\ file.v["extra"] = Str(OldVal)

\* C28: a `config set` that exits with code 1, for want of any option or for a
\* --repo.open that is not 'true'/'false' in any casing, leaves the file as it
\* was (absent if it was absent), whatever other options came with it
C28_AllOrNothing ==
    (out.cmd = "set" /\ out.code = 1) => file = out.before

\* --org and --repo.columns given with --repo.open yes, no file before: none after
C28_Witness ==
    /\ out.cmd = "set" /\ out.code = 1
    /\ out.args.repo_open = Str(<<"yes">>)
    /\ out.args.org # Null /\ out.args.repo_columns # Null
    /\ out.before = NoFile /\ file = NoFile

(***************************************************************************)
(* Specification of parsing the remote URL of the working copy             *)
(***************************************************************************)
\* what may stand between the scheme and the path
HostParts ==
    {PUBLIC_HOST, <<"DEV", ".", "AZURE", ".", "COM">>, <<"u", "@">> \o PUBLIC_HOST,
     <<"x", ".">> \o PUBLIC_HOST, <<"tfs", ".", "corp">>, <<"u", "@", "tfs", ".", "corp">>,
     <<"u", "/", "v", "@", "tfs">>, <<>>}

\* what may stand where the repository name does
RepoTails ==
    {<<"core">>, <<"core", ".", "git">>, <<"a", ".", "b">>, <<"a", ".", "b", ".", "git">>,
     <<".", "git">>, <<"core", ".", "git", ".", "git">>, <<"core", "\n">>,
     <<"core", " ", "x">>, <<"core", "/", "x">>, <<>>}

\* what `git remote get-url origin` may print: HTTPS remotes, SSH remotes, others
RawRemotes ==
    {scheme \o host \o <<"/">> \o org \o <<"/", "Widgets", "/">> \o git \o <<"/">> \o repo :
        scheme \in {HTTPS_SCHEME, <<"http", ":", "/", "/">>}, host \in HostParts,
        org \in {<<"Acme">>, <<>>}, git \in {<<"_git">>, <<"git">>}, repo \in RepoTails}
    \cup
    {prefix \o org \o <<"/", "Widgets", "/">> \o repo :
        prefix \in {SSH_PREFIX, <<"git", "@", "github", ".", "com", ":">>,
                    <<"git", "@", "ssh", ".", "dev", ".", "azure", ".", "com", ":">>},
        org \in {<<"Acme">>, <<>>}, repo \in RepoTails}
    \cup {<<>>, <<"abc">>}

\* get_remote_url: the output of git, stripped
InitParse ==
    /\ \E raw \in RawRemotes : remote = [UrlIdle EXCEPT !.pc = "built", !.url = Strip(raw)]
    /\ IdleConfig /\ IdleNested /\ IdleDb /\ IdleList /\ IdleRace

SpecParse == InitParse /\ [][ParseRemoteUrl]_vars

\* the host the HTTPS pattern captures from the URL, <<>> when it does not match
CapturedHost ==
    IF HttpsMatch(remote.url).ok THEN HttpsMatch(remote.url).groups[1] ELSE <<>>

\* C11: for a remote URL of the HTTPS shape, a captured host containing
\* 'dev.azure.com' in any letter casing, behind any prefix, gives the server
\* 'https://dev.azure.com'; any other captured host h gives 'https://' + h
C11_ServerNormalised ==
    (remote.pc = "parsed" /\ HttpsMatch(remote.url).ok)
        => /\ remote.parsed.ok
           /\ remote.parsed.server =
                 IF Contains(Lower(CapturedHost), PUBLIC_HOST) THEN DEFAULT_SERVER
                 ELSE HTTPS_SCHEME \o CapturedHost

\* https://DEV.AZURE.COM/... has been parsed and the server is not the canonical one
C11_Witness ==
    /\ remote.pc = "parsed" /\ remote.parsed.ok
    /\ CapturedHost = <<"DEV", ".", "AZURE", ".", "COM">>
    /\ remote.parsed.server = HTTPS_SCHEME \o <<"DEV", ".", "AZURE", ".", "COM">>

\* a repository name as the shapes allow it: not empty, no whitespace
RepoNameOk(t) == Len(t) > 0 /\ Range(t) \cap Whitespace = {}

\* host/org/project/_git/repo[.git]
HttpsShapeFrom(rest) ==
    LET segs == Split(rest, "/")
    IN  /\ Len(segs) = 5
        /\ \A i \in 1..3 : Len(segs[i]) > 0
        /\ segs[4] = <<"_git">>
        /\ RepoNameOk(segs[5])

\* https://[user@]host/org/project/_git/repo[.git]
HttpsShape(url) ==
    /\ StartsWith(url, HTTPS_SCHEME)
    /\ LET rest == Slice(url, Len(HTTPS_SCHEME) + 1, Len(url))
           at   == IndexOf(rest, "@")
       IN  \/ HttpsShapeFrom(rest)
           \/ at > 1 /\ HttpsShapeFrom(Slice(rest, at + 1, Len(rest)))

SshParts(url) == Split(Slice(url, Len(SSH_PREFIX) + 1, Len(url)), "/")

\* git@ssh.dev.azure.com:v3/org/project/repo[.git]
SshShape(url) ==
    /\ StartsWith(url, SSH_PREFIX)
    /\ Len(SshParts(url)) = 3
    /\ Len(SshParts(url)[1]) > 0 /\ Len(SshParts(url)[2]) > 0
    /\ RepoNameOk(SshParts(url)[3])

\* a name with one trailing '.git' removed
WithoutDotGit(name) ==
    IF Len(name) > Len(DOT_GIT) /\ EndsWith(name, DOT_GIT)
    THEN Slice(name, 1, Len(name) - Len(DOT_GIT))
    ELSE name

Listed ==
    IF cli.pattern # Null /\ Len(cli.pattern.v) > 0 THEN Filter(cli.api.repos, cli.pattern.v)
    ELSE cli.api.repos

\* the configured names, if any, are as many as the fields
NamesAgree(f) ==
    NamesText(f) = Null \/ Len(NamesText(f).v) = 0 \/ NumNames(f) = NumFields(f)

\* the fields that do not resolve on some repository to display
FailingFields ==
    {ResolvedFields(file)[j] : j \in {k \in 1..NumFields(file) :
        \E i \in 1..Len(Listed) : ~get_nested_value(Listed[i], ResolvedFields(file)[k]).ok}}

\* C13: when a configured field path does not resolve on some repository to
\* display (the first or a later one), `repo list` reports an error naming a
\* failing field, exits with code 1, prints no table and no row, and does not
\* prompt
C13_FieldErrorAborts ==
    (cli.cmd = "repo list" /\ cli.api.t = "ok" /\ NamesAgree(file) /\ FailingFields # {})
        => /\ cli.code = 1
           /\ cli.err.kind = "field" /\ cli.err.what \in FailingFields
           /\ ~cli.table.shown /\ cli.table.rows = <<>>
           /\ ~cli.prompted /\ cli.line = NotRead /\ cli.opened = <<>>

\* project.name resolves on the first of two repositories and not on the second
C13_Witness ==
    /\ cli.cmd = "repo list" /\ cli.api = ApiOk(<<REPO_A, REPO_B>>) /\ cli.pattern = Null
    /\ cli.open_repo
    /\ cli.err = [Err("field") EXCEPT !.what = <<"project", ".", "name">>]
    /\ cli.code = 1 /\ ~cli.table.shown

\* the typed error the failure text calls for
ExpectedKind(msg) ==
    IF Contains(msg, <<"401">>) \/ Contains(msg, <<"Unauthorized">>) THEN "AdoAuthError"
    ELSE IF Contains(msg, <<"404">>) \/ Contains(Lower(msg), <<"not", " ", "found">>)
    THEN "AdoNotFoundError"
    ELSE "AdoClientError"

\* C14: a failure of the remote call in list_repos or get_repo is raised as the
\* one typed error its text calls for (AdoAuthError for '401' or 'Unauthorized',
\* else AdoNotFoundError for '404' or 'not found' in any casing, else
\* AdoClientError); `repo list` then prints the error's message and exits 1
C14_TypedErrors ==
    (cli.cmd \in {"repo list", "get_repo"} /\ cli.api.t = "raise")
        => /\ cli.err.kind = ExpectedKind(cli.api.msg)
           /\ Len(cli.err.what) > 0
           /\ cli.opened = <<>> /\ ~cli.table.shown /\ ~cli.nofound /\ ~cli.prompted
           /\ cli.cmd = "repo list" => cli.code = 1

\* the failure 'Not Found' has reached `repo list` as an AdoNotFoundError
C14_Witness ==
    /\ cli.cmd = "repo list" /\ cli.api = ApiRaise(<<"Not", " ", "Found">>)
    /\ cli.err.kind = "AdoNotFoundError" /\ cli.code = 1

\* the key is absent from the document, or null, or the empty text
Missing(f, key) ==
    \/ key \notin DOMAIN DocumentOf(f)
    \/ DocumentOf(f)[key] = Null
    \/ DocumentOf(f)[key] = Str(<<>>)

\* the run ended on the given configuration error and opened nothing
FatalConfigError(kind) ==
    /\ cli.code = 1 /\ cli.err.kind = kind
    /\ cli.opened = <<>> /\ ~cli.table.shown /\ ~cli.prompted

\* C15: `repo list` and `workitem browse` end on a fatal error, exit code 1 and no
\* browser, when org is missing (reported first, also when project is missing
\* too), when project is missing, or when `repo list` finds ADO_PAT unset in the
\* environment, whatever the document holds under `pat`
C15_MissingInputs ==
    cli.cmd \in {"repo list", "workitem browse"}
        => /\ Missing(file, "org") => FatalConfigError("org")
           /\ cli.pat = "unset" => FatalConfigError("pat")
           /\ (~Missing(file, "org") /\ Missing(file, "project") /\ cli.pat # "unset")
                => FatalConfigError("project")

\* org and project both missing: the organization error
C15_Witness ==
    /\ cli.cmd = "workitem browse"
    /\ Missing(file, "org") /\ Missing(file, "project")
    /\ cli.err.kind = "org" /\ cli.code = 1 /\ cli.opened = <<>>

\* the number typed at the prompt, 0 when the line is not the decimal of a row number
Typed ==
    IF cli.line.t = "line" /\ \E k \in 1..Len(Listed) : Strip(cli.line.v) = IntStr(k)
    THEN CHOOSE k \in 1..Len(Listed) : Strip(cli.line.v) = IntStr(k)
    ELSE 0

\* C16: at the prompt of `repo list` with n repositories displayed, an integer k
\* with 1 <= k <= n opens once the web URL of the k-th displayed repository and
\* the command exits with code 0
C16_ValidSelection ==
    (cli.cmd = "repo list" /\ cli.prompted /\ Typed > 0)
        => /\ cli.opened = <<Listed[Typed].v[<<"web_url">>].v>>
           /\ cli.code = 0 /\ cli.err = NoErr

\* 2 typed against the list A, B: the URL of B is opened
C16_Witness ==
    /\ cli.cmd = "repo list" /\ cli.prompted
    /\ cli.api = ApiOk(<<REPO_A, REPO_B>>) /\ cli.pattern = Null
    /\ cli.line = Line(<<"2">>)
    /\ cli.opened = <<<<"url-b">>>> /\ cli.code = 0

\* the line typed is the text of an integer: an optional sign, then digits
IntegerTyped ==
    /\ cli.line.t = "line"
    /\ LET body == Strip(cli.line.v)
           ds   == IF Len(body) > 0 /\ Head(body) \in {"-", "+"} THEN Tail(body) ELSE body
       IN  Len(ds) > 0 /\ \A i \in 1..Len(ds) : ds[i] \in Range(DigitSyms)

\* C17: at the prompt of `repo list` with n repositories displayed, a line that is
\* not an integer is rejected as an invalid number, an integer outside 1..n (0 and
\* the negative ones included) is rejected with the range 1..n stated; both exit
\* with code 1 and open nothing
C17_InvalidSelection ==
    (cli.cmd = "repo list" /\ cli.prompted /\ cli.line.t = "line" /\ Typed = 0)
        => /\ cli.code = 1 /\ cli.opened = <<>>
           /\ IntegerTyped => cli.err = [Err("range") EXCEPT !.a = 1, !.b = Len(Listed)]
           /\ ~IntegerTyped => cli.err = Err("invalid number")

\* -1 typed against a list of two
C17_Witness ==
    /\ cli.cmd = "repo list" /\ cli.prompted /\ Len(Listed) = 2
    /\ cli.line = Line(<<"-", "1">>)
    /\ cli.err = [Err("range") EXCEPT !.a = 1, !.b = 2] /\ cli.code = 1

\* C18: at the prompt of `build list` with `count` builds displayed, a line that is
\* not an integer reports 'Invalid input' and an integer outside 1..count reports
\* 'Invalid selection'; in both cases the exit code is 0 and nothing is opened
C18_BuildListLenient ==
    (cli.cmd = "build list" /\ cli.prompted /\ cli.line.t = "line"
       /\ Len(Strip(cli.line.v)) > 0
       /\ ~\E k \in 1..Len(cli.table.rows) : Strip(cli.line.v) = IntStr(k))
        => /\ cli.code = 0 /\ cli.opened = <<>>
           /\ ~IntegerTyped => cli.err.kind = "invalid input"
           /\ IntegerTyped => cli.err.kind = "invalid selection"

\* 'abc' typed at the prompt of build list
C18_Witness ==
    /\ cli.cmd = "build list" /\ cli.prompted /\ cli.line = Line(<<"abc">>)
    /\ cli.err.kind = "invalid input" /\ cli.code = 0 /\ cli.opened = <<>>

\* the repositories of the API's answer whose name matches the glob given
Matching ==
    SelectSeq(cli.api.repos, LAMBDA r : fnmatch(r.v[<<"name">>].v, cli.pattern.v))

\* the listing is that of the repositories E: none of them, 'No repositories
\* found', exit code 0 and no prompt; a table shown has their rows, in order,
\* numbered from 1; a URL opened is that of the row of E whose number was typed
ListingOf(E) ==
    /\ Len(E) = 0 => cli.nofound /\ cli.code = 0 /\ ~cli.prompted /\ ~cli.table.shown
                       /\ cli.opened = <<>>
    /\ Len(E) > 0 => ~cli.nofound
    /\ cli.table.shown
         => /\ cli.table.rows = Table(E, ResolvedFields(file), <<>>).rows
            /\ \A i \in 1..Len(E) : cli.table.rows[i][1] = IntStr(i)
    /\ cli.opened # <<>>
         => \E k \in 1..Len(E) : /\ Strip(cli.line.v) = IntStr(k)
                                 /\ cli.opened = <<E[k].v[<<"web_url">>].v>>

BranchShown == IF cli.git.branch # Null THEN cli.git.branch ELSE cli.git.current

\* <server>/<org>/<project>/_git/<repo> of the remote read
BaseUrl ==
    LET parsed == parse_ado_remote_url(cli.git.remote_url.v)
    IN  parsed.server \o <<"/">> \o parsed.org \o <<"/">> \o parsed.project
            \o <<"/", "_git", "/">> \o parsed.repo

\* C23: `repo browse` opens <server>/<org>/<project>/_git/<repo>, followed by
\* ?version=GB<branch> with the branch verbatim when the branch is not empty and
\* by nothing when it is absent or empty; a --branch value is the branch used and
\* the current branch is read only when --branch is not given
C23_RepoUrl ==
    (cli.cmd = "repo browse" /\ cli.code = 0)
        => /\ cli.opened =
                <<BaseUrl \o (IF BranchShown # Null /\ Len(BranchShown.v) > 0
                              THEN <<"?", "version=GB">> \o BranchShown.v ELSE <<>>)>>
           /\ cli.git.branch # Null => cli.git.current = NotRead

\* --branch feature/x given: the slash is kept and the current branch is not read
C23_Witness ==
    /\ cli.cmd = "repo browse" /\ cli.code = 0
    /\ cli.git.branch = Str(<<"feature", "/", "x">>) /\ cli.git.current = NotRead
    /\ cli.opened = <<DEFAULT_SERVER \o <<"/", "Acme", "/", "Widgets", "/", "_git", "/", "core",
                                          "?", "version=GB", "feature", "/", "x">>>>

\* C24: `workitem browse --id N` with org O and project P configured opens
\* exactly <server>/O/P/_workitems/edit/N, where <server> is the configured
\* server or https://dev.azure.com when the key is absent and O and P are
\* inserted unchanged; the run leaves the configuration file as it was
C24_WorkitemUrl ==
    /\ [](( /\ cli.cmd = "workitem browse"
            /\ file.t = "map"
            /\ ~Missing(file, "org") /\ ~Missing(file, "project"))
          => /\ cli.code = 0
             /\ cli.opened =
                  <<(IF "server" \in DOMAIN file.v THEN file.v["server"].v ELSE DEFAULT_SERVER)
                     \o <<"/">> \o file.v["org"].v \o <<"/">> \o file.v["project"].v
                     \o <<"/", "_workitems", "/", "edit", "/">> \o IntStr(cli.id)>>)
    /\ [][cli'.cmd = "workitem browse" => file' = file]_vars

\* id 42 with a configured on-premises server and a project holding a slash
C24_Witness ==
    /\ cli.cmd = "workitem browse" /\ cli.code = 0 /\ cli.id = 42
    /\ cli.opened = <<<<"https", ":", "/", "/", "tfs", ".", "corp", "/", "Acme", "/",
                        "Wid", "/", "gets", "/", "_workitems", "/", "edit", "/", "4", "2">>>>

(***************************************************************************)
(* Sequences of commands over one configuration file, starting without a   *)
(* file; `out` and `cli` describe the command run last                     *)
(***************************************************************************)
InitLife == IdleConfig /\ IdleList /\ IdleRace /\ IdleUrl /\ IdleNested /\ IdleDb

NextLife ==
    \/ config_init /\ cli' = CliIdle /\ UNCHANGED <<remote, nested, dbVars, procs>>
    \/ /\ \E args \in [project : {Null, Str(<<"proj">>)}, org : {Null, Str(<<"org">>)},
                       server : {Null}, repo_columns : {Null, Str(NewVal)},
                       repo_column_names : {Null},
                       repo_open : {Null, Str(<<"FALSE">>), Str(<<"yes">>)}] : config_set(args)
       /\ cli' = CliIdle /\ UNCHANGED <<remote, nested, dbVars, procs>>
    \/ config_list /\ cli' = CliIdle /\ UNCHANGED <<remote, nested, dbVars, procs>>
    \/ /\ \E open_repo \in BOOLEAN, pat \in BOOLEAN,
             api \in {ApiOk(<<REPO_A>>), ApiRaise(<<"boom">>)}, line \in {Eof, Line(<<"1">>)} :
             cli' = repo_list(file, Null, open_repo, pat, api, line)
       /\ out' = Outcome("none", 0, NoArgs, NoFile, EmptyDict)
       /\ UNCHANGED <<file, remote, nested, dbVars, procs>>
    \/ /\ \E inside \in BOOLEAN,
             remote_out \in {Null, Str(SSH_PREFIX \o <<"Acme", "/", "Widgets", "/", "core">>)} :
             cli' = repo_browse(Null, inside, remote_out, Str(<<"main">>))
       /\ out' = Outcome("none", 0, NoArgs, NoFile, EmptyDict)
       /\ UNCHANGED <<file, remote, nested, dbVars, procs>>
    \/ /\ cli' = workitem_browse(file, 42)
       /\ out' = Outcome("none", 0, NoArgs, NoFile, EmptyDict)
       /\ UNCHANGED <<file, remote, nested, dbVars, procs>>

SpecLife == InitLife /\ [][NextLife]_vars

\* the command run by the step ended successfully and was `config init` or `config set`
WroteConfig == out'.cmd \in {"init", "set"} /\ out'.code = 0

\* C25: over any sequence of config init, config set, config list, repo browse,
\* repo list and workitem browse, the file comes into existence only in a step
\* of a successful `config init` or `config set`, a file that exists is never
\* removed, and `config init` succeeds only in a step that starts without a
\* file (so never after an earlier successful init or set)
C25_Lifecycle ==
    /\ [][(file = NoFile /\ file' # NoFile) => WroteConfig]_vars
    /\ [][file # NoFile => file' # NoFile]_vars
    /\ [][(out'.cmd = "init" /\ out'.code = 0) => file = NoFile]_vars
    /\ []((out.cmd = "init" /\ out.code = 0) => out.before = NoFile)

\* the file was created by `config set --org` and a
\* later `config init` was refused
C25_Witness ==
    /\ out.cmd = "init" /\ out.code = 1
    /\ file = out.before /\ file.t = "map"
    /\ DOMAIN file.v = {"org"}

\* C26: whenever the traversal of a path stands, with at least one segment left,
\* on a string that is not JSON, get_nested_value raises, whatever the next
\* segment is named: nothing obtained from the string's own attributes is returned
C26_UnparsedStringFails ==
    nested.pc = "done" =>
        LET parts == Split(nested.path, ".")
        IN  \A k \in 1..(Len(parts) - 1) :
                LET at == Traverse(nested.obj, parts, 1, k)
                IN  (at.ok /\ at.val.t = "str") => nested.res = Raised

\* the path a.upper on an object whose a is the text abc returns the bound
\* method of the string
C26_Witness ==
    /\ nested.pc = "done"
    /\ nested.path = <<"a", ".", "upper">>
    /\ <<"a">> \in DOMAIN nested.obj.v
    /\ nested.obj.v[<<"a">>] = Str(NOT_JSON)
    /\ nested.res = Returned(Method(<<"upper">>))

(***************************************************************************)
(* Two `config set` invocations at once.  Here the file is its text, one   *)
(* character per element: each invocation reads it (ado.py 98), opens it   *)
(* for writing, which empties it (ado_config.py 36), and dumps its         *)
(* document from the start of the file (ado_config.py 37), with no lock    *)
(***************************************************************************)
\* yaml.dump of a flat document of strings: one `key: value` line per key, keys sorted
yaml_dump(doc) ==
    LET KeyText == [org |-> <<"o", "r", "g">>, server |-> <<"s", "e", "r", "v", "e", "r">>]
        Entry(k) == IF k \in DOMAIN doc THEN KeyText[k] \o <<":", " ">> \o doc[k].v \o <<"\n">>
                    ELSE <<>>
    IN  IF DOMAIN doc = {} THEN <<"{", "}", "\n">> ELSE Entry("org") \o Entry("server")

\* yaml.safe_load of a text: None for the empty text, the document for a dump
\* of a document with keys org and server; no other text is read here
yaml_safe_load(text) ==
    LET Docs == Dicts({"org", "server"}, {Str(<<"o", "l", "d">>), Str(<<"n", "e", "w">>),
                                           Str(<<"x", "y", "z">>), Str(<<"s", "r", "v">>)})
    IN  IF text = <<>> THEN Null
        ELSE IF \E d \in Docs : yaml_dump(d) = text
        THEN Map(CHOOSE d \in Docs : yaml_dump(d) = text)
        ELSE [t |-> "error", v |-> text]

InitRace ==
    /\ file \in {NoFile, [t |-> "text", v |-> yaml_dump([org |-> Str(<<"o", "l", "d">>)])]}
    /\ procs \in [{1, 2} ->
                    {[NoProc EXCEPT !.pc = "start", !.updates = u] :
                        u \in {[org |-> Str(<<"n", "e", "w">>)], [org |-> Str(<<"x", "y", "z">>)],
                               [server |-> Str(<<"s", "r", "v">>)],
                               [org |-> Str(<<"n", "e", "w">>), server |-> Str(<<"s", "r", "v">>)]}}]
    /\ out = Outcome("none", 0, NoArgs, NoFile, EmptyDict)
    /\ IdleList /\ IdleUrl /\ IdleNested /\ IdleDb

\* read_config and existing_config.update(updates) (ado.py 98-101)
RaceRead(p) ==
    /\ procs[p].pc = "start"
    /\ LET content == IF file = NoFile THEN Null ELSE yaml_safe_load(file.v)
       IN  procs' = [procs EXCEPT ![p] =
                        IF content.t = "error" THEN [@ EXCEPT !.pc = "failed"]
                        ELSE [@ EXCEPT !.pc = "read",
                                       !.config = Map(Update(IF content = Null THEN EmptyDict
                                                             ELSE content.v, procs[p].updates))]]
    /\ UNCHANGED <<file, out, remote, nested, dbVars, cli>>

\* open(config_path, 'w'): the file exists and is empty
RaceOpen(p) ==
    /\ procs[p].pc = "read"
    /\ file' = [t |-> "text", v |-> <<>>]
    /\ procs' = [procs EXCEPT ![p].pc = "opened"]
    /\ UNCHANGED <<out, remote, nested, dbVars, cli>>

\* yaml.dump(config, f) and the close: the text goes over the file from its
\* start, and what the file holds beyond the end of the text stays
RaceDump(p) ==
    /\ procs[p].pc = "opened"
    /\ LET text == yaml_dump(procs[p].config.v)
       IN  file' = [t |-> "text", v |-> text \o SubSeq(file.v, Len(text) + 1, Len(file.v))]
    /\ procs' = [procs EXCEPT ![p].pc = "done",
                              ![p].turn = 1 + Cardinality({q \in {1, 2} : procs[q].turn > 0})]
    /\ UNCHANGED <<out, remote, nested, dbVars, cli>>

NextRace == \E p \in {1, 2} : RaceRead(p) \/ RaceOpen(p) \/ RaceDump(p)

SpecRace == InitRace /\ [][NextRace]_vars

\* C27: when two `config set` invocations have run at once, the file is the
\* whole document written by the invocation that wrote last, so an update the
\* other one wrote after the last writer's read is lost and the file is not a
\* merge of the two writes
C27_LastWriterWins ==
    (\A p \in {1, 2} : procs[p].pc = "done")
        => \E p \in {1, 2} : procs[p].turn = 2 /\ file.v = yaml_dump(procs[p].config.v)

\* both invocations read the missing file, both opened it, the one setting org
\* and server dumped first and the one setting org last: the file holds the
\* last writer's org and the first writer's server
C27_Witness ==
    /\ \A p \in {1, 2} : procs[p].pc = "done"
    /\ \E p \in {1, 2} :
          /\ procs[p].turn = 2
          /\ procs[p].config = Map([org |-> Str(<<"x", "y", "z">>)])
          /\ procs[3 - p].config = Map([org |-> Str(<<"n", "e", "w">>), server |-> Str(<<"s", "r", "v">>)])
    /\ file.v = yaml_dump([org |-> Str(<<"x", "y", "z">>), server |-> Str(<<"s", "r", "v">>)])

\* C29: whenever `repo list` resolves its columns and shows the table, for every
\* combination of repo.columns and repo.column-names (absent, empty, any CSV),
\* there are as many display names as fields: the header has one cell per field
\* after the "#" cell and every row has exactly one cell per header cell
C29_NamesMatchFields ==
    (cli.cmd = "repo list" /\ cli.table.shown)
        => /\ Len(ShownNames) = NumFields(file)
           /\ \A i \in 1..Len(cli.table.rows) :
                 Len(cli.table.rows[i]) = Len(cli.table.header)

\* two configured names over two configured fields, two repositories listed
C29_Witness ==
    /\ cli.cmd = "repo list" /\ cli.table.shown
    /\ NamesText(file) = Str(<<"A", ",", " ", "B">>)
    /\ ColumnsText(file) = Str(<<"name", ",", " ", "web_url">>)
    /\ cli.table.header = <<<<"#">>, <<"A">>, <<"B">>>>
    /\ Len(cli.table.rows) = 2
    /\ \A i \in 1..2 : Len(cli.table.rows[i]) = 3

\* C30: a run of `repo browse`, `workitem browse` or `repo list` opens at most
\* one URL and opens none when it exits with a non-zero code; `repo browse`
\* checks the git repository, then the remote, then the URL, and reports the
\* first check that fails without making the later ones
C30_OpenLast ==
    /\ cli.cmd \in {"repo browse", "workitem browse", "repo list"}
          => /\ Len(cli.opened) <= 1
             /\ cli.code # 0 => cli.opened = <<>>
    /\ cli.cmd = "repo browse"
          => /\ cli.err.kind = "not a git repository"
                    <=> ~cli.git.inside
             /\ ~cli.git.inside => cli.git.remote_url = NotRead /\ cli.code = 1
             /\ cli.err.kind = "no remote"
                    <=> (cli.git.inside /\ cli.git.remote_url = Null)
             /\ cli.err.kind = "not an ADO URL"
                    <=> (cli.git.inside /\ cli.git.remote_url.t = "str"
                            /\ ~parse_ado_remote_url(cli.git.remote_url.v).ok)
             /\ cli.err.kind # "none" => cli.code = 1 /\ cli.git.current = NotRead

\* inside a git repository whose remote is no Azure DevOps URL: exit 1, nothing opened
C30_Witness ==
    /\ cli.cmd = "repo browse" /\ cli.code = 1
    /\ cli.git.inside /\ cli.git.remote_url = Str(<<"abc">>)
    /\ cli.err.kind = "not an ADO URL"
    /\ cli.opened = <<>>

====
